---- MODULE Spec2Model ----
(***************************************************************************)
(* Verification model of circuitous:                                       *)
(*   - the e-graph (include/circuitous/ADT/EGraph.hpp) over the union-find *)
(*     (include/circuitous/ADT/UnionFind.hpp, modelled from its contract:  *)
(*     make_set, find, find_compress with path halving, merge by rank),    *)
(*   - the decoder synthesizer (DecoderPrinter): context projection, the   *)
(*     emitted per-context functions, the selection tree and the emitted   *)
(*     circuit_decode,                                                     *)
(*   - the e-matcher (include/eqsat/algo/ematch.hpp) over an e-graph given *)
(*     by its interface (find, eclass, eclasses),                          *)
(*   - context extraction (DecoderPrinter::extract_ctx, GetContexts and    *)
(*     SubtreeCollector) over a circuit IR given by its data model,        *)
(*   - the command-line driver (Main.cpp),                                 *)
(*   - the regions of instruction bits (shadowinst: has_regions, Invert).  *)
(* Spec and EGManySpec explore the e-graph, DecSpec, DecWideSpec and       *)
(* DecTailSpec the decoder, MatchSpec the matcher, ExtractSpec extraction  *)
(* followed by emission, MainSpec the driver, RegionSpec has_regions::add  *)
(* and InvertSpec Invert.                                                  *)
(***************************************************************************)
EXTENDS Integers, Sequences, FiniteSets, TLC

\* ---------------------------------------------------------------------
\* Bounds of the e-graph exploration
\* ---------------------------------------------------------------------
MaxNodes == 3
MaxArity == 1
Names == {"a", "f"}

VARIABLES nodes, uparent, urank, classes, ids, pending, failed, last

egvars == <<nodes, uparent, urank, classes, ids, pending, failed, last>>

\* ---------------------------------------------------------------------
\* Generic helpers
\* ---------------------------------------------------------------------
\* an array held by value: every element is computed once
ArrayOf(f) == f @@ <<>>

RECURSIVE PermSeqs(_)
PermSeqs(S) ==
    IF S = {} THEN {<<>>}
    ELSE UNION {{<<x>> \o p : p \in PermSeqs(S \ {x})} : x \in S}

\* ---------------------------------------------------------------------
\* UnionFind: ids are dense naturals starting at 0; parent and rank arrays
\* are functions over 0 .. n-1.
\* ---------------------------------------------------------------------
UFSize(par) == Cardinality(DOMAIN par)

RECURSIVE UFFind(_, _)
UFFind(par, id) == IF par[id] = id THEN id ELSE UFFind(par, par[id])

\* path-halving compression; yields the root and the updated parent array
RECURSIVE UFFindCompress(_, _)
UFFindCompress(par, id) ==
    IF par[id] = id THEN [root |-> id, par |-> par]
    ELSE LET gp == par[par[id]]
         IN UFFindCompress([par EXCEPT ![id] = gp], gp)

\* union by rank of two roots; yields the surviving root
UFMerge(par, rank, a, b) ==
    IF a = b THEN [root |-> a, par |-> par, rank |-> rank]
    ELSE LET hi == IF rank[a] < rank[b] THEN b ELSE a
             lo == IF rank[a] < rank[b] THEN a ELSE b
         IN [root |-> hi,
             par  |-> [par EXCEPT ![lo] = hi],
             rank |-> IF rank[a] = rank[b]
                      THEN [rank EXCEPT ![hi] = rank[hi] + 1]
                      ELSE rank]

\* ---------------------------------------------------------------------
\* EGraph helpers.  An e-node pointer is its index in nodes (1-based);
\* an e-node is [name, children]; an e-class is [nodes, parents], both
\* sequences of e-node pointers.
\* ---------------------------------------------------------------------
EmptyClass == [nodes |-> <<>>, parents |-> <<>>]

\* canonicalize: child = find_compress(child) for each child, in order
RECURSIVE CanonChildren(_, _, _)
CanonChildren(par, ch, i) ==
    IF i > Len(ch) THEN [children |-> ch, par |-> par]
    ELSE LET r == UFFindCompress(par, ch[i])
         IN CanonChildren(r.par, [ch EXCEPT ![i] = r.root], i + 1)

\* canonicalize every node of the pointer sequence ptrs, in order
RECURSIVE CanonNodes(_, _, _, _)
CanonNodes(ns, par, ptrs, i) ==
    IF i > Len(ptrs) THEN [nodes |-> ns, par |-> par]
    ELSE LET c == CanonChildren(par, ns[ptrs[i]].children, 1)
         IN CanonNodes([ns EXCEPT ![ptrs[i]].children = c.children],
                       c.par, ptrs, i + 1)

\* _classes[id] of a mutable map: inserts an empty class when id is absent
ClassesIndex(cls, id) ==
    IF id \in DOMAIN cls THEN cls ELSE cls @@ (id :> EmptyClass)

\* read-only find of the e-graph
Find(id) == UFFind(uparent, id)

\* ---------------------------------------------------------------------
\* EGraph::add
\* ---------------------------------------------------------------------
RECURSIVE AddParentLinks(_, _, _, _)
AddParentLinks(cls, ch, ptr, i) ==
    IF i > Len(ch) THEN cls
    ELSE AddParentLinks(
            [cls EXCEPT ![ch[i]].parents = Append(@, ptr)], ch, ptr, i + 1)

CreateSingletonEClass(cls, id, ptr) ==
    cls @@ (id :> [nodes |-> <<ptr>>, parents |-> <<>>])

Add(name, children) ==
    /\ ~failed
    /\ LET c   == CanonChildren(uparent, children, 1)
           ptr == Len(nodes) + 1
           id  == UFSize(uparent)
       IN /\ nodes' = Append(nodes, [name |-> name, children |-> c.children])
          /\ uparent' = c.par @@ (id :> id)
          /\ urank' = urank @@ (id :> 0)
          /\ ids' = ids @@ (ptr :> id)
          /\ classes' = AddParentLinks(CreateSingletonEClass(classes, id, ptr),
                                       c.children, ptr, 1)
          /\ last' = [op |-> "add", ret |-> id]
    /\ UNCHANGED <<pending, failed>>

\* ---------------------------------------------------------------------
\* EGraph::merge
\* ---------------------------------------------------------------------
\* variant that takes over the nodes of the other class only
EClassMergeNodesOnly(self, other) ==
    [nodes |-> self.nodes \o other.nodes, parents |-> self.parents]

\* EClass::merge: append the other class's nodes and parents
EClassMerge(self, other) ==
    [nodes |-> self.nodes \o other.nodes,
     parents |-> self.parents \o other.parents]

\* variant that keeps the class of b and erases the class of a
AbsorbClassIntoLoser(cls, a, b) ==
    LET class_a == cls[a]
        erased  == [k \in DOMAIN cls \ {a} |-> cls[k]]
    IN [erased EXCEPT ![b] = [nodes |-> @.nodes \o class_a.nodes,
                              parents |-> @.parents \o class_a.parents]]

\* the tail of EGraph::merge: erase b, absorb it into a
AbsorbClass(cls, a, b) ==
    LET class_b == cls[b]
        erased  == [k \in DOMAIN cls \ {b} |-> cls[k]]
        withA   == ClassesIndex(erased, a)
    IN [withA EXCEPT ![a] = EClassMerge(@, class_b)]

\* variant whose union-find merge takes the ids as given instead of the
\* roots found for them
MergeNoFind(a0, b0) ==
    /\ ~failed
    /\ LET ra == UFFindCompress(uparent, a0)
           rb == UFFindCompress(ra.par, b0)
       IN IF ra.root = rb.root
          THEN /\ uparent' = rb.par
               /\ last' = [op |-> "merge", ret |-> ra.root]
               /\ UNCHANGED <<nodes, urank, classes, ids, pending, failed>>
          ELSE LET swap == Len(classes[ra.root].parents)
                              < Len(classes[rb.root].parents)
                   a == IF swap THEN rb.root ELSE ra.root
                   b == IF swap THEN ra.root ELSE rb.root
                   m == UFMerge(rb.par, urank, IF swap THEN b0 ELSE a0,
                                IF swap THEN a0 ELSE b0)
               IN /\ uparent' = m.par
                  /\ urank' = m.rank
                  /\ IF m.root # a
                     THEN /\ failed' = TRUE
                          /\ last' = [op |-> "abort", ret |-> m.root]
                          /\ UNCHANGED <<nodes, classes, ids, pending>>
                     ELSE /\ pending' = Append(pending, m.root)
                          /\ classes' = AbsorbClass(classes, a, b)
                          /\ last' = [op |-> "merge", ret |-> m.root]
                          /\ UNCHANGED <<nodes, ids, failed>>

Merge(a0, b0) ==
    /\ ~failed
    /\ LET ra == UFFindCompress(uparent, a0)
           rb == UFFindCompress(ra.par, b0)
       IN IF ra.root = rb.root
          THEN /\ uparent' = rb.par
               /\ last' = [op |-> "merge", ret |-> ra.root]
               /\ UNCHANGED <<nodes, urank, classes, ids, pending, failed>>
          ELSE LET swap == Len(classes[ra.root].parents)
                              < Len(classes[rb.root].parents)
                   a == IF swap THEN rb.root ELSE ra.root
                   b == IF swap THEN ra.root ELSE rb.root
                   m == UFMerge(rb.par, urank, a, b)
               IN /\ uparent' = m.par
                  /\ urank' = m.rank
                  /\ IF m.root # a
                     THEN \* CHECK_EQ(new_id, a) fails: the process aborts
                          /\ failed' = TRUE
                          /\ last' = [op |-> "abort", ret |-> m.root]
                          /\ UNCHANGED <<nodes, classes, ids, pending>>
                     ELSE /\ pending' = Append(pending, m.root)
                          /\ classes' = AbsorbClass(classes, a, b)
                          /\ last' = [op |-> "merge", ret |-> m.root]
                          /\ UNCHANGED <<nodes, ids, failed>>

\* ---------------------------------------------------------------------
\* EGraph::rebuild and EGraph::repair
\* ---------------------------------------------------------------------
\* first loop of rebuild: canonicalize the nodes of every pending class
RECURSIVE RebuildCanon(_, _, _)
RebuildCanon(g, pend, i) ==
    IF i > Len(pend) THEN g
    ELSE LET cls == ClassesIndex(g.classes, pend[i])
             c   == CanonNodes(g.nodes, g.par, cls[pend[i]].nodes, 1)
         IN RebuildCanon([g EXCEPT !.classes = cls, !.nodes = c.nodes,
                                   !.par = c.par], pend, i + 1)

\* second loop of rebuild: the set of find_compress(id) of the pending ids
RECURSIVE RebuildChanged(_, _, _, _)
RebuildChanged(par, pend, i, acc) ==
    IF i > Len(pend) THEN [changed |-> acc, par |-> par]
    ELSE LET r == UFFindCompress(par, pend[i])
         IN RebuildChanged(r.par, pend, i + 1, acc \cup {r.root})

\* variant that canonicalizes each node and leaves its _ids entry alone
RECURSIVE RepairNodesKeepIds(_, _, _)
RepairNodesKeepIds(g, ptrs, i) ==
    IF i > Len(ptrs) THEN g
    ELSE LET c == CanonChildren(g.par, g.nodes[ptrs[i]].children, 1)
             r == UFFindCompress(c.par, g.ids[ptrs[i]])
         IN RepairNodesKeepIds([g EXCEPT !.nodes[ptrs[i]].children = c.children,
                                         !.par = r.par], ptrs, i + 1)

\* first loop of repair: canonicalize each node and refresh its _ids entry
RECURSIVE RepairNodes(_, _, _)
RepairNodes(g, ptrs, i) ==
    IF i > Len(ptrs) THEN g
    ELSE LET c == CanonChildren(g.par, g.nodes[ptrs[i]].children, 1)
             r == UFFindCompress(c.par, g.ids[ptrs[i]])
         IN RepairNodes([g EXCEPT !.nodes[ptrs[i]].children = c.children,
                                  !.par = r.par,
                                  !.ids[ptrs[i]] = r.root], ptrs, i + 1)

\* second loop of repair: new_parents.try_emplace(find_compress(_ids[node]), node)
RECURSIVE RepairParents(_, _, _, _)
RepairParents(par, idmap, ptrs, acc) ==
    IF ptrs = <<>> THEN [map |-> acc, par |-> par]
    ELSE LET r == UFFindCompress(par, idmap[Head(ptrs)])
         IN RepairParents(r.par, idmap, Tail(ptrs),
                          IF r.root \in DOMAIN acc THEN acc
                          ELSE acc @@ (r.root :> Head(ptrs)))

\* variant of the last loop of repair that erases nothing
ObliterateNothing(cls) == cls

ObliterateEmpty(cls) ==
    [k \in {c \in DOMAIN cls : cls[c].nodes # <<>>} |-> cls[k]]

\* EGraph::repair: the set of its outcomes, one for every order in which the
\* unordered map new_parents of this call may be iterated
Repair(g, id) ==
    LET g1 == RepairNodes(g, g.classes[id].nodes, 1)
        np == RepairParents(g1.par, g1.ids, g1.classes[id].parents, <<>>)
    IN {LET newparents == [i \in DOMAIN ks |-> np.map[ks[i]]]
            cls == [g1.classes EXCEPT ![id].parents = newparents]
        IN [g1 EXCEPT !.par = np.par, !.classes = ObliterateEmpty(cls)] :
           ks \in PermSeqs(DOMAIN np.map)}

\* the repair loop of rebuild over the classes todo, from any of the graphs gs
RECURSIVE RepairAll(_, _)
RepairAll(gs, todo) ==
    IF todo = <<>> THEN gs
    ELSE RepairAll(
           UNION {Repair([g EXCEPT !.classes = ClassesIndex(@, Head(todo))],
                         Head(todo)) : g \in gs},
           Tail(todo))

\* EGraph::rebuild; changed_classes is an unordered set, iterated in any order
Rebuild ==
    /\ ~failed
    /\ LET g0 == [nodes |-> nodes, par |-> uparent, classes |-> classes,
                  ids |-> ids]
           g1 == RebuildCanon(g0, pending, 1)
           ch == RebuildChanged(g1.par, pending, 1, {})
       IN \E todo \in PermSeqs(ch.changed) :
          \E g2 \in RepairAll({[g1 EXCEPT !.par = ch.par]}, todo) :
             /\ nodes' = g2.nodes
             /\ uparent' = g2.par
             /\ classes' = g2.classes
             /\ ids' = g2.ids
    /\ pending' = <<>>
    /\ last' = [op |-> "rebuild", ret |-> 0]
    /\ UNCHANGED <<urank, failed>>


\* =====================================================================
\* Decoder synthesizer (DecoderPrinter)
\* =====================================================================
\* A decode condition is [low, high_exc, bits]: Extract(low, high_exc) of the
\* instruction bits compared with Constant(bits); bits[k + 1] is the C++
\* bits[k].  An extracted context is [len, conds]: encoding_size_in_bytes
\* and decodeConditions in their iteration order.
\* A 64-bit word is a function 0 .. 63 -> {0, 1}; a tri-state array is a
\* function into InputType.  A buffer is a function 0 .. 14 -> 0 .. 255.

InstrBits == 120
DelimHighInc == 119
HalfBits == 64
ByteBits == 8
InputType == {"zero", "one", "ignore"}

VARIABLES dctx, dpc, dfuncs, dtree, dbuf, dres, dfn

dvars == <<dctx, dpc, dfuncs, dtree, dbuf, dres, dfn>>

ctoit(c) ==
    CASE c = "0" -> "zero"
      [] c = "1" -> "one"
      [] c = "~" -> "ignore"

to_val(ty) ==
    CASE ty = "zero" -> 0
      [] ty = "one" -> 1
      [] ty = "ignore" -> 1

to_val_negated(ty) ==
    CASE ty = "zero" -> 1
      [] ty = "one" -> 0
      [] ty = "ignore" -> 0

\* ExtractedCtx::convert_circIR_to_input_type_array, one byte i of 0 .. 15:
\* the conditions are visited in order and a later one overwrites
\* the per-byte projection without the skip of the length delimiter
RECURSIVE InputByteWithDelimiter(_, _, _, _)
InputByteWithDelimiter(conds, i, n, val) ==
    IF n > Len(conds) THEN val
    ELSE LET low == conds[n].low
             high_inc == conds[n].high_exc - 1
         IN IF low > (i + 1) * ByteBits \/ high_inc < i * ByteBits
            THEN InputByteWithDelimiter(conds, i, n + 1, val)
            ELSE InputByteWithDelimiter(conds, i, n + 1,
                   [c \in 0 .. ByteBits - 1 |->
                      LET bit_index == i * ByteBits + c
                      IN IF low <= bit_index /\ bit_index <= high_inc
                         THEN ctoit(conds[n].bits[bit_index - low + 1])
                         ELSE val[c]])

RECURSIVE InputByte(_, _, _, _)
InputByte(conds, i, n, val) ==
    IF n > Len(conds) THEN val
    ELSE LET low == conds[n].low
             high_inc == conds[n].high_exc - 1
         IN IF low > (i + 1) * ByteBits \/ high_inc < i * ByteBits
               \/ high_inc = DelimHighInc
            THEN InputByte(conds, i, n + 1, val)
            ELSE InputByte(conds, i, n + 1,
                   [c \in 0 .. ByteBits - 1 |->
                      LET bit_index == i * ByteBits + c
                      IN IF low <= bit_index /\ bit_index <= high_inc
                         THEN ctoit(conds[n].bits[bit_index - low + 1])
                         ELSE val[c]])

convert_circIR_to_input_type_array(ctx) ==
    [i \in 0 .. 15 |->
        ArrayOf(InputByte(ctx.conds, i, 1,
                          [c \in 0 .. ByteBits - 1 |-> "ignore"]))]

convert_bytes_to_uints64(bytes, offset) ==
    ArrayOf([i \in 0 .. HalfBits - 1 |->
                bytes[offset + (i \div ByteBits)][i % ByteBits]])

get_decode_context_function_args(ctx) ==
    LET input_checks == convert_circIR_to_input_type_array(ctx)
    IN [first |-> convert_bytes_to_uints64(input_checks, 0),
        second |-> convert_bytes_to_uints64(input_checks, 8)]

contains_ignore_bit(byte) == \E i \in DOMAIN byte : byte[i] = "ignore"
contains_only_ignore_bit(byte) == \A i \in DOMAIN byte : byte[i] = "ignore"

\* OptionalBitArray<64>::to_uint64 (the expected bits: a bit is set where a
\* one is required) and ::ignored_bits_to_uint64 (the ignore mask)
to_uint64(byte) == [i \in DOMAIN byte |-> IF byte[i] = "one" THEN 1 ELSE 0]
ignored_bits_to_uint64(byte) ==
    [i \in DOMAIN byte |-> IF byte[i] = "ignore" THEN 1 ELSE 0]

\* bitwise operators of the emitted C code on 64-bit words
BitwiseNegate(x) == [i \in DOMAIN x |-> 1 - x[i]]
BitwiseOr(x, y) == [i \in DOMAIN x |-> IF x[i] = 1 \/ y[i] = 1 THEN 1 ELSE 0]
BitwiseXor(x, y) == [i \in DOMAIN x |-> IF x[i] = y[i] THEN 0 ELSE 1]

\* the statement emitted by print_ignore_bits, applied to the argument
print_ignore_bits(byte, arg) ==
    IF contains_ignore_bit(byte) /\ ~contains_only_ignore_bit(byte)
    THEN BitwiseOr(arg, ignored_bits_to_uint64(byte))
    ELSE arg

\* the expression emitted by get_comparison, evaluated on the argument
get_comparison(byte, arg) ==
    BitwiseXor(arg, BitwiseNegate(to_uint64(byte)))
        = BitwiseNegate(ignored_bits_to_uint64(byte))

\* compare_exprs.size() of get_decode_context_function_body
NumCompareExprs(args) ==
    (IF contains_only_ignore_bit(args.first) THEN 0 ELSE 1)
    + (IF contains_only_ignore_bit(args.second) THEN 0 ELSE 1)

\* The emitted per-context function run on (first8bytes, second8bytes).
\* With no comparison at all the generator indexes an empty vector
\* (compare_exprs[0], compare_exprs[1]): the outcome ub is whatever the
\* build makes of it.
get_decode_context_function_body(args, encoding_size, first8, second8, ub) ==
    LET a1 == print_ignore_bits(args.first, first8)
        a2 == print_ignore_bits(args.second, second8)
        c1 == get_comparison(args.first, a1)
        c2 == get_comparison(args.second, a2)
    IN IF NumCompareExprs(args) = 0 THEN ub
       ELSE IF NumCompareExprs(args) = 1
       THEN (IF ~contains_only_ignore_bit(args.first)
             THEN (IF c1 THEN 1 ELSE 0) ELSE (IF c2 THEN 1 ELSE 0))
            * encoding_size
       ELSE (IF c1 /\ c2 THEN 1 ELSE 0) * encoding_size

\* the per-context function as emitted: the two tri-state words and the length
print_context_decoder_function(ctx) ==
    [args |-> get_decode_context_function_args(ctx),
     encoding_size |-> ctx.len]

\* a call of the emitted per-context function
CallCtx(fn, first8bytes, second8bytes, ub) ==
    get_decode_context_function_body(fn.args, fn.encoding_size,
                                     first8bytes, second8bytes, ub)

\* ---------------------------------------------------------------------
\* Selection tree
\* ---------------------------------------------------------------------
\* std::vector operator< on vectors of context pointers: lexicographic;
\* a pointer is the index of the context in extracted_ctxs
RECURSIVE VecLess(_, _)
VecLess(x, y) ==
    IF y = <<>> THEN FALSE
    ELSE IF x = <<>> THEN TRUE
    ELSE IF Head(x) < Head(y) THEN TRUE
    ELSE IF Head(y) < Head(x) THEN FALSE
    ELSE VecLess(Tail(x), Tail(y))

\* std::min(a, b): b when b < a, else a
StdMin(a, b) == IF VecLess(b, a) THEN b ELSE a

\* the quantity compared by operator<(Decode_Requires_Group)
GroupScore(g) == Len(StdMin(g.zeros, g.ones))

\* the inner loop of get_decode_requirements_per_index over the conditions
\* the per-index scoring without the skip of the length delimiter
RECURSIVE RequiredAtWithDelimiter(_, _, _, _)
RequiredAtWithDelimiter(conds, i, n, val) ==
    IF n > Len(conds) THEN val
    ELSE LET low == conds[n].low
             high_inc == conds[n].high_exc - 1
         IN IF low > i \/ high_inc < i
            THEN RequiredAtWithDelimiter(conds, i, n + 1, val)
            ELSE RequiredAtWithDelimiter(conds, i, n + 1,
                    IF conds[n].bits[i - low + 1] = "0" THEN "zero" ELSE "one")

RECURSIVE RequiredAt(_, _, _, _)
RequiredAt(conds, i, n, val) ==
    IF n > Len(conds) THEN val
    ELSE LET low == conds[n].low
             high_inc == conds[n].high_exc - 1
         IN IF low > i \/ high_inc < i \/ high_inc = DelimHighInc
            THEN RequiredAt(conds, i, n + 1, val)
            ELSE RequiredAt(conds, i, n + 1,
                    IF conds[n].bits[i - low + 1] = "0" THEN "zero" ELSE "one")

EmptyGroup == [zeros |-> <<>>, ones |-> <<>>, ignores |-> <<>>]

get_decode_requirements_per_index(ctxs, to_split, already_chosen_bits) ==
  ArrayOf(
    [i \in 0 .. InstrBits - 1 |->
        IF i \in already_chosen_bits THEN EmptyGroup
        ELSE LET v(k) == RequiredAt(ctxs[to_split[k]].conds, i, 1, "ignore")
                 sel(t) == SelectSeq([k \in DOMAIN to_split |-> k],
                                     LAMBDA k : v(k) = t)
                 pick(t) == [j \in DOMAIN sel(t) |-> to_split[sel(t)[j]]]
             IN [zeros |-> pick("zero"), ones |-> pick("one"),
                 ignores |-> pick("ignore")]])

\* std::max_element: the first index whose group no other one exceeds
MaxElement(iv) ==
    LET sc == ArrayOf([i \in DOMAIN iv |-> GroupScore(iv[i])])
    IN CHOOSE i \in DOMAIN iv :
          /\ \A j \in DOMAIN iv : sc[j] <= sc[i]
          /\ \A j \in DOMAIN iv : j < i => sc[j] < sc[i]

ReturnMinus1 == [kind |-> "ret"]
ReturnCall(k) == [kind |-> "call", ctx |-> k]
\* an internal node also records the call's to_split and already_chosen_bits
IfElse(bit, lhs, rhs, to_split, already) ==
    [kind |-> "if", bit |-> bit, ones |-> lhs, zeros |-> rhs,
     to_split |-> to_split, already |-> already]

\* the construction without the return on two empty branches
RECURSIVE generate_decoder_selection_tree_no_return(_, _, _)
generate_decoder_selection_tree_no_return(ctxs, to_split, already_chosen_bits) ==
    IF to_split = <<>> THEN ReturnMinus1
    ELSE IF Len(to_split) = 1 THEN ReturnCall(to_split[1])
    ELSE LET indice_values ==
                 get_decode_requirements_per_index(ctxs, to_split,
                                                   already_chosen_bits)
             candidate_index == MaxElement(indice_values)
             chosen == already_chosen_bits \cup {candidate_index}
             g == indice_values[candidate_index]
             ones == g.ones \o g.ignores
             zeros == g.zeros \o g.ignores
         IN IfElse(candidate_index,
                   generate_decoder_selection_tree_no_return(ctxs, ones, chosen),
                   generate_decoder_selection_tree_no_return(ctxs, zeros, chosen),
                   to_split, already_chosen_bits)

RECURSIVE generate_decoder_selection_tree(_, _, _)
generate_decoder_selection_tree(ctxs, to_split, already_chosen_bits) ==
    IF to_split = <<>> THEN ReturnMinus1
    ELSE IF Len(to_split) = 1 THEN ReturnCall(to_split[1])
    ELSE LET indice_values ==
                 get_decode_requirements_per_index(ctxs, to_split,
                                                   already_chosen_bits)
             candidate_index == MaxElement(indice_values)
             chosen == already_chosen_bits \cup {candidate_index}
             g == indice_values[candidate_index]
             ones == g.ones \o g.ignores
             zeros == g.zeros \o g.ignores
         IN IF ones = <<>> /\ zeros = <<>> THEN ReturnMinus1
            ELSE IfElse(candidate_index,
                        generate_decoder_selection_tree(ctxs, ones, chosen),
                        generate_decoder_selection_tree(ctxs, zeros, chosen),
                        to_split, already_chosen_bits)

\* max_depth after the construction of tree t from depth 0: the depth of
\* the deepest call, each leaf being a call that returns at once
RECURSIVE max_depth(_)
max_depth(t) ==
    IF t.kind = "if"
    THEN LET l == max_depth(t.ones)
             r == max_depth(t.zeros)
         IN 1 + (IF l < r THEN r ELSE l)
    ELSE 0

\* ---------------------------------------------------------------------
\* The emitted circuit_decode
\* ---------------------------------------------------------------------
Pow2(n) == IF n = 0 THEN 1 ELSE IF n = 1 THEN 2 ELSE IF n = 2 THEN 4
           ELSE IF n = 3 THEN 8 ELSE IF n = 4 THEN 16 ELSE IF n = 5 THEN 32
           ELSE IF n = 6 THEN 64 ELSE 128

\* bit b of the byte value v
ByteBit(v, b) == (v \div Pow2(b)) % 2

\* convert_array_input_to_uint64: sum of bytes[i (+8)] << 8 * i; the array has
\* 15 bytes, so byte 15 of the second word is read out of bounds (oob)
convert_array_input_to_uint64(bytes, oob, second_uint) ==
    ArrayOf([j \in 0 .. HalfBits - 1 |->
        LET idx == (j \div ByteBits) + (IF second_uint THEN 8 ELSE 0)
        IN ByteBit(IF idx \in DOMAIN bytes THEN bytes[idx] ELSE oob,
                   j % ByteBits)])

RECURSIVE RunTree(_, _, _, _, _, _)
RunTree(t, fns, bytes, first8bytes, second8bytes, ub) ==
    IF t.kind = "ret" THEN -1
    ELSE IF t.kind = "call"
    THEN CallCtx(fns[t.ctx], first8bytes, second8bytes, ub[t.ctx])
    ELSE IF ByteBit(bytes[t.bit \div ByteBits], t.bit % ByteBits) # 0
         THEN RunTree(t.ones, fns, bytes, first8bytes, second8bytes, ub)
         ELSE RunTree(t.zeros, fns, bytes, first8bytes, second8bytes, ub)

circuit_decode(t, fns, bytes, oob, ub) ==
    RunTree(t, fns, bytes,
            convert_array_input_to_uint64(bytes, oob, FALSE),
            convert_array_input_to_uint64(bytes, oob, TRUE), ub)

\* ---------------------------------------------------------------------
\* The decoder as a state machine: contexts are given, print_file emits the
\* decoder, the emitted decoder is then run on buffers.
\* ---------------------------------------------------------------------
MaxCtxs == 2
MaxWidth == 1
CondLows == {0, 1, 64}
DelimLows == {8, 16}
BitChars == {"0", "1", "~"}
Byte0Values == {0, 1, 2, 3}
Byte8Values == {0, 1}
OobValues == {0, 255}

CondPool ==
    UNION {{[low |-> l, high_exc |-> l + w, bits |-> b] :
                l \in CondLows, b \in [1 .. w -> BitChars]} : w \in 1 .. MaxWidth}

\* the length delimiter: Extract(low, 120); extract_ctx sets len = low / 8
Delimiter(l) ==
    [low |-> l, high_exc |-> InstrBits,
     bits |-> [k \in 1 .. InstrBits - l |-> "0"]]

CtxPool ==
    {[len |-> l \div ByteBits, conds |-> cs \o <<Delimiter(l)>>] :
        l \in DelimLows, cs \in {<<>>} \cup {<<c>> : c \in CondPool}}

NoBuf == [i \in 0 .. 14 |-> 0]

DecInitWith(pool, n) ==
    /\ dctx \in UNION {[1 .. k -> pool] : k \in 0 .. n}
    /\ dpc = "init"
    /\ dfuncs = <<>>
    /\ dtree = ReturnMinus1
    /\ dbuf = NoBuf
    /\ dres = -1
    /\ dfn = <<>>

\* DecoderPrinter::print_file.  Emitting a function without any comparison
\* indexes an empty vector: the generator may crash there (crash), or go on
\* and emit a function of arbitrary result.
PrintFile(crash) ==
    /\ dpc = "init"
    /\ crash => \E k \in DOMAIN dctx :
                   NumCompareExprs(get_decode_context_function_args(dctx[k])) = 0
    /\ IF crash
       THEN /\ dpc' = "crashed"
            /\ UNCHANGED <<dfuncs, dtree>>
       ELSE /\ dpc' = "emitted"
            /\ dfuncs' = [k \in DOMAIN dctx |->
                             print_context_decoder_function(dctx[k])]
            /\ dtree' = generate_decoder_selection_tree(
                            dctx, [k \in DOMAIN dctx |-> k], {})
    /\ UNCHANGED <<dctx, dbuf, dres, dfn>>

\* a call of the emitted circuit_decode, and of every per-context function
\* on the same two words
Decode(bytes, oob, ub) ==
    /\ dpc = "emitted"
    /\ dbuf' = bytes
    /\ dres' = circuit_decode(dtree, dfuncs, bytes, oob, ub)
    /\ dfn' = [k \in DOMAIN dfuncs |->
                 CallCtx(dfuncs[k],
                         convert_array_input_to_uint64(bytes, oob, FALSE),
                         convert_array_input_to_uint64(bytes, oob, TRUE),
                         ub[k])]
    /\ dpc' = "decoded"
    /\ UNCHANGED <<dctx, dfuncs, dtree>>

Buffers ==
    {[i \in 0 .. 14 |-> IF i = 0 THEN b0 ELSE IF i = 8 THEN b8 ELSE 0] :
        b0 \in Byte0Values, b8 \in Byte8Values}

\* outcomes of the undefined per-context function: 0 or the length
UbOutcomes ==
    {u \in [DOMAIN dfuncs -> 0 .. 2] :
        \A k \in DOMAIN dfuncs :
            IF NumCompareExprs(dfuncs[k].args) = 0
            THEN u[k] \in {0, dfuncs[k].encoding_size} ELSE u[k] = 0}

DecIdle == DecInitWith({}, 0)


\* =====================================================================
\* E-matching (eqsat/algo/ematch.hpp)
\* =====================================================================
\* The matched e-graph is [nodes, find]: nodes is the sequence of e-nodes
\* [name, const, children] (const is "none" for a node that is no constant),
\* the handle of node i is i, children are handles, and find maps a handle
\* to the canonical handle of its class.  A pattern expression is
\* [k, v, elems]: an atom of kind k ("constant", "operation", "place") with
\* value v, or a list (k = "list") of expressions elems, head first.
\* A match_pattern is [action]; label atoms and match_expr actions end the
\* process ("not implemented") and are not among the patterns explored.
\* A match result is [root, matched_places, at]; matched_places maps place
\* indices (from 0) to handles.
\* match_generator is a coroutine: the call runs nothing and every
\* resumption runs up to the next co_yield.  The frames suspended at a
\* co_yield form a chain, one per e-node chosen by a loop over the nodes of
\* a class; "at" is that chain of node handles.  The matcher's view of the
\* graph is [nodes, find, at, resumed]: at is the chain of the running frame
\* and resumed the chain of the last co_yield handed to the consumer (<<>>
\* for a fresh generator).  A frame whose chain is a prefix of resumed read
\* its node before that co_yield and is past its test; every other frame
\* reads the node as it is now.  With resumed = <<>> a function below is
\* the sequence its generator yields on an unchanging graph.

MaxMNodes == 2
MaxMChildren == 2
MaxPatChildren == 2

MaxRelabels == 2

VARIABLES mgraph, mpat, mres, mpc, mrelabels

mvars == <<mgraph, mpat, mres, mpc, mrelabels>>

Constant(v) == [k |-> "constant", v |-> v, elems |-> <<>>]
Operation(v) == [k |-> "operation", v |-> v, elems |-> <<>>]
Place(v) == [k |-> "place", v |-> v, elems |-> <<>>]
ExprList(es) == [k |-> "list", v |-> "", elems |-> es]

RECURSIVE FlattenSeq(_)
FlattenSeq(ss) == IF ss = <<>> THEN <<>> ELSE Head(ss) \o FlattenSeq(Tail(ss))
\* the concatenation of the sequences of ss, each of them computed once
Flatten(ss) == FlattenSeq(ss \o <<>>)

\* graph.find(&node), graph.eclass(handle), graph.eclasses()
graph_find(g, n) == g.find[n]
graph_eclass(g, h) ==
    SelectSeq([i \in 1 .. Len(g.nodes) |-> i], LAMBDA i : g.find[i] = g.find[h])
graph_eclasses(g) ==
    SelectSeq([i \in 1 .. Len(g.nodes) |-> i], LAMBDA i : g.find[i] = i)

extract_constant(node) == node.const
node_name(node) == node.name

IsPrefix(p, t) == Len(p) <= Len(t) /\ SubSeq(t, 1, Len(p)) = p

\* the view of a generator last suspended at resumed, and of the frame
\* entered for node n or continued after the result m
View(g, resumed) ==
    [nodes |-> g.nodes, find |-> g.find, at |-> <<>>, resumed |-> resumed]
AtNode(g, n) == [g EXCEPT !.at = Append(@, n)]
After(g, m) == [g EXCEPT !.at = m.at]

\* the running frame tested its node before the last co_yield
Passed(g) == g.at # <<>> /\ IsPrefix(g.at, g.resumed)

\* the places of an expression in order of occurrence, then without repeats
RECURSIVE PlaceOccurrences(_)
PlaceOccurrences(e) ==
    IF e.k = "place" THEN <<e.v>>
    ELSE IF e.k = "list"
         THEN Flatten([i \in DOMAIN e.elems |-> PlaceOccurrences(e.elems[i])])
         ELSE <<>>

RECURSIVE Unique(_, _)
Unique(s, acc) ==
    IF s = <<>> THEN acc
    ELSE Unique(Tail(s), IF \E i \in DOMAIN acc : acc[i] = Head(s)
                         THEN acc ELSE Append(acc, Head(s)))

gather_places(pattern) == Unique(PlaceOccurrences(pattern.action), <<>>)

\* std::distance(begin, std::find(begin, end, place)), counted from 0
place_index(place, places) ==
    IF \E i \in DOMAIN places : places[i] = place
    THEN (CHOOSE i \in DOMAIN places :
             places[i] = place /\ \A j \in 1 .. i - 1 : places[j] # place) - 1
    ELSE Len(places)

match_constant(c, n, g, places, matched_places) ==
    IF \/ Passed(g)
       \/ /\ extract_constant(g.nodes[n]) # "none"
          /\ extract_constant(g.nodes[n]) = c.v
    THEN <<[root |-> graph_find(g, n), matched_places |-> matched_places,
            at |-> g.at]>>
    ELSE <<>>

match_operation(o, n, g, places, matched_places) ==
    IF Passed(g) \/ node_name(g.nodes[n]) = o.v
    THEN <<[root |-> graph_find(g, n), matched_places |-> matched_places,
            at |-> g.at]>>
    ELSE <<>>

\* variant that binds or keeps the first binding without comparing
match_place_unchecked(p, n, g, places, matched_places) ==
    LET id == place_index(p.v, places)
        handle == graph_find(g, n)
    IN <<[root |-> handle,
          matched_places |-> IF id \in DOMAIN matched_places
                             THEN matched_places
                             ELSE matched_places @@ (id :> handle),
          at |-> g.at]>>

match_place(p, n, g, places, matched_places) ==
    LET id == place_index(p.v, places)
        handle == graph_find(g, n)
    IN IF id \in DOMAIN matched_places /\ matched_places[id] # handle
       THEN <<>>
       ELSE <<[root |-> handle,
               matched_places |-> IF id \in DOMAIN matched_places
                                  THEN matched_places
                                  ELSE matched_places @@ (id :> handle),
               at |-> g.at]>>

match_atom(atom, n, g, places, matched_places) ==
    CASE atom.k = "constant" -> match_constant(atom, n, g, places, matched_places)
      [] atom.k = "operation" -> match_operation(atom, n, g, places, matched_places)
      [] atom.k = "place" -> match_place(atom, n, g, places, matched_places)

RECURSIVE match_simple_expr(_, _, _, _, _)
RECURSIVE match_eclass(_, _, _, _, _)
RECURSIVE match_children(_, _, _, _, _)
RECURSIVE match_list_prefix(_, _, _, _, _)
RECURSIVE match_list(_, _, _, _, _)

\* match(simple_expr, eclass): every node of the class, in order
match_eclass(expr, eclass, g, places, matched_places) ==
    Flatten([i \in DOMAIN eclass |->
                match_simple_expr(expr, eclass[i], AtNode(g, eclass[i]),
                                  places, matched_places)])

match_children(pattern_children, node_children, g, places, matched_places) ==
    LET match_child ==
            match_eclass(Head(pattern_children),
                         graph_eclass(g, Head(node_children)),
                         g, places, matched_places)
    IN IF Len(pattern_children) = 1 THEN match_child
       ELSE Flatten([i \in DOMAIN match_child |->
                match_children(Tail(pattern_children), Tail(node_children),
                               After(g, match_child[i]), places,
                               match_child[i].matched_places)])

\* variant that accepts a node with more children than the pattern lists
match_list_prefix(list, n, g, places, matched_places) ==
    LET heads == match_simple_expr(Head(list.elems), n, g, places, matched_places)
        pattern_children == Tail(list.elems)
        node_children == g.nodes[n].children
    IN IF pattern_children = <<>> THEN heads
       ELSE IF Len(pattern_children) > Len(node_children) THEN <<>>
       ELSE Flatten([i \in DOMAIN heads |->
                LET ms == match_children(pattern_children, node_children,
                                         After(g, heads[i]), places,
                                         heads[i].matched_places)
                IN [j \in DOMAIN ms |->
                       [root |-> heads[i].root,
                        matched_places |-> ms[j].matched_places,
                        at |-> ms[j].at]]])

match_list(list, n, g, places, matched_places) ==
    LET heads == match_simple_expr(Head(list.elems), n, g, places, matched_places)
        pattern_children == Tail(list.elems)
        node_children == g.nodes[n].children
    IN IF pattern_children = <<>> THEN heads
       ELSE IF Len(pattern_children) # Len(node_children) THEN <<>>
       ELSE Flatten([i \in DOMAIN heads |->
                LET ms == match_children(pattern_children, node_children,
                                         After(g, heads[i]), places,
                                         heads[i].matched_places)
                IN [j \in DOMAIN ms |->
                       [root |-> heads[i].root,
                        matched_places |-> ms[j].matched_places,
                        at |-> ms[j].at]]])

match_simple_expr(expr, n, g, places, matched_places) ==
    IF expr.k = "list" THEN match_list(expr, n, g, places, matched_places)
    ELSE match_atom(expr, n, g, places, matched_places)

\* the results of one node, each tagged with the node it was matched at
match_by_action(pattern, n, g, places) ==
    LET ms == match_simple_expr(pattern.action, n, g, places, <<>>)
    IN [j \in DOMAIN ms |-> [node |-> n, root |-> ms[j].root,
                             matched_places |-> ms[j].matched_places,
                             at |-> ms[j].at]]

\* variant that looks at the first node of the class only
match_pattern_eclass_first(pattern, eclass, g, places) ==
    match_by_action(pattern, Head(eclass), AtNode(g, Head(eclass)), places)

\* match(match_pattern, eclass)
match_pattern_eclass(pattern, eclass, g, places) ==
    Flatten([i \in DOMAIN eclass |->
                match_by_action(pattern, eclass[i], AtNode(g, eclass[i]), places)])

\* match(match_pattern, egraph)
match_graph(pattern, g) ==
    LET places == gather_places(pattern)
        roots == graph_eclasses(g)
        all == Flatten([i \in DOMAIN roots |->
                  match_pattern_eclass(pattern, graph_eclass(g, roots[i]), g, places)])
    IN SelectSeq(all, LAMBDA m :
                    Cardinality(DOMAIN m.matched_places) = Len(places))

\* match(rewrite_rule, egraph)
match_rule(rule, g) == match_graph(rule.lhs, g)

\* the element of the sequence all that follows the one yielded at resumed
RECURSIVE NextAfter(_, _)
NextAfter(all, resumed) ==
    IF all = <<>> THEN <<>>
    ELSE IF resumed = <<>> THEN <<Head(all)>>
    ELSE IF Head(all).at = resumed THEN NextAfter(Tail(all), <<>>)
    ELSE NextAfter(Tail(all), resumed)

\* one resumption of the generator of match(rule, g) last suspended at
\* resumed: the result of the next co_yield, or nothing when it returns
match_resume(rule, g, resumed) ==
    NextAfter(match_rule(rule, View(g, resumed)), resumed)

\* inputs: e-graphs of up to MaxMNodes nodes, patterns over f, a, 1, ?x, ?y
NodeShapes(n) ==
    {[name |-> "a", const |-> "none", children |-> <<>>],
     [name |-> "1", const |-> "1", children |-> <<>>]}
    \cup {[name |-> "f", const |-> "none", children |-> ch] :
            ch \in UNION {[1 .. k -> 1 .. n] : k \in 1 .. MaxMChildren}}

\* find maps every handle to the least handle of its class
FindMaps(n) ==
    {f \in [1 .. n -> 1 .. n] :
        \A i \in 1 .. n : f[i] <= i /\ f[f[i]] = f[i]}

\* the e-graphs of up to m e-nodes
MGraphPool(m) ==
    UNION {{[nodes |-> ns, find |-> f] :
               ns \in [1 .. n -> NodeShapes(n)], f \in FindMaps(n)} :
           n \in 1 .. m}

PatHeads == {Operation("f"), Place("x")}
PatChildren == {Place("x"), Place("y"), ExprList(<<Operation("f"), Place("x")>>)}
PatAtoms == {Operation("f"), Operation("a"), Constant("1"), Place("x")}
MPatPool ==
    PatAtoms
    \cup {ExprList(<<h>> \o cs) :
            h \in PatHeads,
            cs \in UNION {[1 .. k -> PatChildren] : k \in 0 .. MaxPatChildren}}

NoGraph == [nodes |-> <<>>, find |-> <<>>]
NoPattern == [action |-> Operation("")]

MIdle ==
    /\ mgraph = NoGraph
    /\ mpat = NoPattern
    /\ mres = <<>>
    /\ mpc = "idle"
    /\ mrelabels = 0

MStart ==
    /\ mgraph \in MGraphPool(MaxMNodes)
    /\ mpat = NoPattern
    /\ mres = <<>>
    /\ mpc = "idle"
    /\ mrelabels = 0

\* the chain at which the generator is suspended
Resumed == IF mres = <<>> THEN <<>> ELSE mres[Len(mres)].at

\* the call match(rule, graph): the generator is created and runs nothing
MatchCall(rule) ==
    /\ mpc = "idle"
    /\ mpat' = rule.lhs
    /\ mpc' = "suspended"
    /\ UNCHANGED <<mgraph, mres, mrelabels>>

\* the consumer asks for the next result: the generator runs up to its next
\* co_yield, or returns
MatchResume ==
    /\ mpc = "suspended"
    /\ LET next == match_resume([lhs |-> mpat], mgraph, Resumed)
       IN IF next # <<>>
          THEN mres' = Append(mres, next[1]) /\ mpc' = "suspended"
          ELSE mpc' = "done" /\ UNCHANGED mres
    /\ UNCHANGED <<mgraph, mpat, mrelabels>>

\* the consumer, between two results, gives e-node n another name and
\* constant; the handles, children and classes stay as they are.  (Before
\* the first result nothing of the generator has run, so a change made
\* then is a call on the changed graph.)
Labels ==
    {[name |-> "a", const |-> "none"], [name |-> "1", const |-> "1"],
     [name |-> "f", const |-> "none"]}
Relabel(n, l) ==
    /\ mpc = "suspended"
    /\ mres # <<>>
    /\ mgraph' = [mgraph EXCEPT !.nodes[n].name = l.name,
                                !.nodes[n].const = l.const]
    /\ mgraph' # mgraph
    /\ mrelabels' = mrelabels + 1
    /\ UNCHANGED <<mpat, mres, mpc>>


\* =====================================================================
\* Context extraction (DecoderPrinter::extract_ctx, GetContexts)
\* =====================================================================
\* The circuit IR is [ops, circuit]: ops is the sequence of operations
\* [kind, operands, low, high_exc, bits], an operation is named by its index
\* (its id), operands are indices, and circuit is the index of the Circuit
\* root.  A DecodeCondition carries the slice of its Extract operand and the
\* bits of its Constant operand; those two operands are leaves and are not
\* operations of the model.  users are the back-edges of operands.

MaxVIs == 2

VARIABLES xir, xerr

xvars == <<xir, xerr>>

Op(kind, operands) ==
    [kind |-> kind, operands |-> operands, low |-> 0, high_exc |-> 0,
     bits |-> <<>>]
DecodeConditionOp(cond) ==
    [kind |-> "DecodeCondition", operands |-> <<>>, low |-> cond.low,
     high_exc |-> cond.high_exc, bits |-> cond.bits]

Users(ir, o) ==
    {u \in DOMAIN ir.ops :
        \E i \in DOMAIN ir.ops[u].operands : ir.ops[u].operands[i] = o}

\* SubtreeCollector<T>::Run(Operation *): the insertions into collected, in
\* the order they are made
RECURSIVE SubtreeCollectorRun(_, _, _)
SubtreeCollectorRun(ir, kind, o) ==
    (IF ir.ops[o].kind = kind THEN <<o>> ELSE <<>>)
    \o Flatten([i \in DOMAIN ir.ops[o].operands |->
                  SubtreeCollectorRun(ir, kind, ir.ops[o].operands[i])])

\* SubtreeCollector<T>::Run(const C &ops)
SubtreeCollectorRunAll(ir, kind, ops) ==
    Flatten([i \in DOMAIN ops |-> SubtreeCollectorRun(ir, kind, ops[i])])

\* collect::UpTree<VerifyInstruction>::Run
RECURSIVE UpTreeRun(_, _)
UpTreeRun(ir, o) ==
    (IF ir.ops[o].kind = "VerifyInstruction" THEN {o} ELSE {})
    \cup UNION {UpTreeRun(ir, u) : u \in Users(ir, o)}

Elements(seq) == {seq[i] : i \in DOMAIN seq}
CountIn(seq, e) == Cardinality({i \in DOMAIN seq : seq[i] = e})

GetContexts(ir, o) ==
    UpTreeRun(ir, o) \cup Elements(SubtreeCollectorRun(ir, "VerifyInstruction", o))

\* iteration of an unordered_multiset: the distinct elements in the order
\* ord, equal elements next to each other
IterMultiset(collected, ord) ==
    Flatten([i \in DOMAIN ord |->
                [j \in 1 .. CountIn(collected, ord[i]) |-> ord[i]]])

CondOf(ir, o) ==
    [id |-> o, low |-> ir.ops[o].low, high_exc |-> ir.ops[o].high_exc,
     bits |-> ir.ops[o].bits]

\* std::find_if(decNodes.begin(), decNodes.end(), high_bit_exc == 120):
\* the position found, or 0 for end()
FindDelimiter(ir, decNodes) ==
    IF \E i \in DOMAIN decNodes : ir.ops[decNodes[i]].high_exc = InstrBits
    THEN CHOOSE i \in DOMAIN decNodes :
            /\ ir.ops[decNodes[i]].high_exc = InstrBits
            /\ \A j \in 1 .. i - 1 : ir.ops[decNodes[j]].high_exc # InstrBits
    ELSE 0

\* the body of the loop of extract_ctx for one VerifyInstruction: the
\* exception thrown ("" for none) and the context built
ExtractOne(ir, vi, ord) ==
    LET collected == SubtreeCollectorRunAll(ir, "DecodeCondition",
                                            ir.ops[vi].operands)
        decNodes == IterMultiset(collected, ord)
        x == FindDelimiter(ir, decNodes)
        encoding_length == IF x = 0 THEN 0 ELSE ir.ops[decNodes[x]].low \div 8
    IN IF x = 0
       THEN [thrown |-> "No decode condition that specifies end"]
       ELSE IF encoding_length > 15
       THEN [thrown |-> "Instruction is longer than 15 bytes"]
       ELSE [thrown |-> "",
             ctx |-> [vi |-> vi, len |-> encoding_length,
                      conds |-> [i \in DOMAIN decNodes |-> CondOf(ir, decNodes[i])]]]

\* the loop of extract_ctx over the contexts not yet visited: every outcome
\* [thrown, ctxs] that some iteration order of the unordered containers gives
RECURSIVE ExtractLoop(_, _, _)
ExtractLoop(ir, todo, acc) ==
    IF todo = {} THEN {[thrown |-> "", ctxs |-> acc]}
    ELSE UNION {
           UNION {
             LET r == ExtractOne(ir, vi, ord)
             IN IF r.thrown # "" THEN {[thrown |-> r.thrown, ctxs |-> <<>>]}
                ELSE ExtractLoop(ir, todo \ {vi}, Append(acc, r.ctx)) :
             ord \in PermSeqs(Elements(SubtreeCollectorRunAll(
                        ir, "DecodeCondition", ir.ops[vi].operands)))} :
           vi \in todo}

extract_ctx(ir) ==
    ExtractLoop(ir, GetContexts(ir, ir.ops[ir.circuit].operands[1]), <<>>)

\* construction of the DecoderPrinter for the circuit: extract_ctx either
\* fills the contexts or throws
ExtractCtx ==
    /\ dpc = "new"
    /\ \E r \in extract_ctx(xir) :
          IF r.thrown # ""
          THEN /\ dpc' = "thrown"
               /\ xerr' = r.thrown
               /\ UNCHANGED dctx
          ELSE /\ dpc' = "init"
               /\ dctx' = r.ctxs
               /\ UNCHANGED xerr
    /\ UNCHANGED <<xir, dfuncs, dtree, dbuf, dres, dfn>>

\* inputs: four decode conditions (bit 0 is 0, bit 0 is 1, the delimiter of
\* a one-byte encoding, a delimiter whose slice starts at bit 128), an And
\* over the second one, and up to MaxVIs VerifyInstructions that are either
\* the operands of the Circuit or the operands of its only operand
FixedOps ==
    <<DecodeConditionOp([low |-> 0, high_exc |-> 1, bits |-> <<"0">>]),
      DecodeConditionOp([low |-> 0, high_exc |-> 1, bits |-> <<"1">>]),
      DecodeConditionOp(Delimiter(8)),
      DecodeConditionOp([low |-> 128, high_exc |-> InstrBits, bits |-> <<>>]),
      Op("And", <<2>>)>>

ViShapes ==
    {<<3>>, <<1, 3>>, <<2, 3>>, <<1, 2, 3>>, <<5, 2, 3>>, <<5, 3>>, <<1>>,
     <<1, 4>>}

CircuitOf(vis, direct) ==
    LET n == Len(FixedOps)
        k == Len(vis)
        viOps == [i \in 1 .. k |-> Op("VerifyInstruction", vis[i])]
        viIds == [i \in 1 .. k |-> n + i]
    IN IF direct
       THEN [ops |-> FixedOps \o viOps \o <<Op("Circuit", viIds)>>,
             circuit |-> n + k + 1]
       ELSE [ops |-> FixedOps \o viOps
                       \o <<Op("OnlyOneCondition", viIds),
                            Op("Circuit", <<n + k + 1>>)>>,
             circuit |-> n + k + 2]

IRPool ==
    {CircuitOf(vis, direct) :
        vis \in UNION {[1 .. k -> ViShapes] : k \in 1 .. MaxVIs},
        direct \in BOOLEAN}

NoIR == [ops |-> <<>>, circuit |-> 0]

XIdle ==
    /\ xir = NoIR
    /\ xerr = ""

\* a circuit handed to a DecoderPrinter that has not extracted yet
XStart ==
    /\ xir \in IRPool
    /\ xerr = ""
    /\ dctx = <<>>
    /\ dpc = "new"
    /\ dfuncs = <<>>
    /\ dtree = ReturnMinus1
    /\ dbuf = NoBuf
    /\ dres = -1
    /\ dfn = <<>>

\* =====================================================================
\* The command-line driver (Main.cpp)
\* =====================================================================
\* A flag value is "" (not given), "-" or a path.  The environment decides
\* whether lifting the binary and deserializing the IR give a circuit.

EXIT_SUCCESS == 0
EXIT_FAILURE == 1
FlagValues == {"", "-", "file"}
InputFlags == {"binary_in", "ir_in"}
OutputFlags == {"ir_out", "dot_out", "python_out", "smt_out", "json_out"}

VARIABLES cflags, cenv, cpc, cexit, cerr, csrc, cwrites

cvars == <<cflags, cenv, cpc, cexit, cerr, csrc, cwrites>>

\* the stream a flag value of "-" stands for
DashOf(flag) ==
    CASE flag = "ir_in" -> "/dev/stdin"
      [] flag = "ir_out" -> "/dev/stdout"
      [] OTHER -> "/dev/stderr"

\* the input branch of main: the source read and whether it gave a circuit
LoadCircuit(flags, env) ==
    IF flags["binary_in"] # ""
    THEN [src |-> "binary_in", circuit |-> env.lift]
    ELSE IF flags["ir_in"] # ""
    THEN [src |-> "ir_in", circuit |-> env.deserialize]
    ELSE [src |-> "none", circuit |-> FALSE]

\* the flags as main leaves them: "-" replaced by the stream it stands for
RewriteFlags(flags, fs) ==
    [f \in DOMAIN flags |->
        IF f \in fs /\ flags[f] = "-" THEN DashOf(f) ELSE flags[f]]

\* variant that tells a failed load apart by exit code 2
MainExitTwo ==
    /\ cpc = "start"
    /\ cpc' = "exited"
    /\ LET l == LoadCircuit(cflags, cenv)
           inflags == IF l.src = "ir_in" THEN {"ir_in"} ELSE {}
       IN /\ csrc' = l.src
          /\ IF l.src = "none"
             THEN /\ cerr' = "Expected one of --binary_in or --ir_in"
                  /\ cexit' = EXIT_FAILURE
                  /\ UNCHANGED <<cflags, cwrites>>
             ELSE IF ~l.circuit
             THEN /\ cerr' = "Failed to get circuit IR"
                  /\ cexit' = 2
                  /\ cflags' = RewriteFlags(cflags, inflags)
                  /\ UNCHANGED cwrites
             ELSE /\ cflags' = RewriteFlags(cflags, inflags \cup OutputFlags)
                  /\ cwrites' = {[sink |-> f, path |-> cflags'[f]] :
                                    f \in {g \in OutputFlags : cflags[g] # ""}}
                  /\ cexit' = EXIT_SUCCESS
                  /\ UNCHANGED cerr
    /\ UNCHANGED cenv

\* one run of main
Main ==
    /\ cpc = "start"
    /\ cpc' = "exited"
    /\ LET l == LoadCircuit(cflags, cenv)
           inflags == IF l.src = "ir_in" THEN {"ir_in"} ELSE {}
       IN /\ csrc' = l.src
          /\ IF l.src = "none"
             THEN /\ cerr' = "Expected one of --binary_in or --ir_in"
                  /\ cexit' = EXIT_FAILURE
                  /\ UNCHANGED <<cflags, cwrites>>
             ELSE IF ~l.circuit
             THEN /\ cerr' = "Failed to get circuit IR"
                  /\ cexit' = EXIT_FAILURE
                  /\ cflags' = RewriteFlags(cflags, inflags)
                  /\ UNCHANGED cwrites
             ELSE /\ cflags' = RewriteFlags(cflags, inflags \cup OutputFlags)
                  /\ cwrites' = {[sink |-> f, path |-> cflags'[f]] :
                                    f \in {g \in OutputFlags : cflags[g] # ""}}
                  /\ cexit' = EXIT_SUCCESS
                  /\ UNCHANGED cerr
    /\ UNCHANGED cenv

NoFlags == [f \in InputFlags \cup OutputFlags |-> ""]

CIdle ==
    /\ cflags = NoFlags
    /\ cenv = [lift |-> FALSE, deserialize |-> FALSE]
    /\ cpc = "idle"
    /\ cexit = -1
    /\ cerr = ""
    /\ csrc = "none"
    /\ cwrites = {}

CStart ==
    /\ cflags \in [InputFlags \cup OutputFlags -> FlagValues]
    /\ cenv \in [lift : BOOLEAN, deserialize : BOOLEAN]
    /\ cpc = "start"
    /\ cexit = -1
    /\ cerr = ""
    /\ csrc = "none"
    /\ cwrites = {}

\* =====================================================================
\* Regions of instruction bits (shadowinst)
\* =====================================================================
\* region_t is std::map<uint64_t, uint64_t>, {from -> size}: a function
\* whose domain is the set of keys, iterated in ascending key order.  The
\* inputs below keep every uint64_t expression far from wrapping.
MaxFrom == 4
MaxSize == 3
MaxAdds == 3
MaxLength == 4

VARIABLES regions, rcalls, iwhat, ilen, iout, iback, ipc

rvars == <<regions, rcalls, iwhat, ilen, iout, iback, ipc>>

MinKey(S) == CHOOSE k \in S : \A j \in S : k <= j

\* the keys of a std::map in iteration order
RECURSIVE KeysInOrder(_)
KeysInOrder(S) ==
    IF S = {} THEN <<>>
    ELSE <<MinKey(S)>> \o KeysInOrder(S \ {MinKey(S)})

\* m[k] = v, m.erase(k), and the default-inserting m[k]
MapPut(m, k, v) == [j \in DOMAIN m \cup {k} |-> IF j = k THEN v ELSE m[j]]
MapErase(m, k) == [j \in DOMAIN m \ {k} |-> m[j]]
MapIndex(m, k) == IF k \in DOMAIN m THEN m ELSE MapPut(m, k, 0)

StdMax(a, b) == IF a < b THEN b ELSE a

has_regions_pre(r, anchor, from, size) ==
    LET r0 == MapIndex(r, anchor)
        original_end == anchor + r0[anchor]
    IN MapPut(MapErase(r0, anchor), from, StdMax(original_end - from, size))

has_regions_post(r, anchor, from, size) ==
    LET r0 == MapIndex(r, anchor)
    IN MapPut(r0, anchor, StdMax(r0[anchor], from + size - anchor))

\* the loop of has_regions::add over the stored regions
RECURSIVE AddScan(_, _, _, _)
AddScan(r, keys, from, size) ==
    IF keys = <<>> THEN MapPut(r, from, size)
    ELSE LET x == Head(keys)
             y == r[x]
         IN IF x <= from /\ x + y >= from
            THEN has_regions_post(r, x, from, size)
            ELSE IF from <= x /\ from + size >= x
            THEN has_regions_pre(r, x, from, size)
            ELSE AddScan(r, Tail(keys), from, size)

has_regions_add(r, from, size) == AddScan(r, KeysInOrder(DOMAIN r), from, size)

RECURSIVE SumSizes(_, _)
SumSizes(r, keys) ==
    IF keys = <<>> THEN 0 ELSE r[Head(keys)] + SumSizes(r, Tail(keys))

region_bitsize(r) == SumSizes(r, KeysInOrder(DOMAIN r))

present(r, idx) ==
    \E from \in DOMAIN r : idx >= from /\ idx < from + r[from]

\* the loop of Invert over the regions of what
RECURSIVE InvertScan(_, _, _, _)
InvertScan(what, keys, current, out) ==
    IF keys = <<>> THEN [out |-> out, current |-> current]
    ELSE LET from == Head(keys)
             size == what[from]
         IN InvertScan(what, Tail(keys), from + size,
                       IF current # from
                       THEN MapPut(out, current, from - current)
                       ELSE out)

\* Invert without the region after the last one of what
InvertNoTail(what, lenght) ==
    InvertScan(what, KeysInOrder(DOMAIN what), 0, <<>>).out

Invert(what, lenght) ==
    LET s == InvertScan(what, KeysInOrder(DOMAIN what), 0, <<>>)
    IN IF s.current # lenght
       THEN MapPut(s.out, s.current, lenght - s.current)
       ELSE s.out

\* Instruction::UnknownRegions on the identified regions of an instruction
UnknownRegions(identified, lenght) == Invert(identified, lenght)

\* a call of has_regions::add
AddRegion(from, size) ==
    /\ ipc = "idle"
    /\ regions' = has_regions_add(regions, from, size)
    /\ rcalls' = Append(rcalls, <<from, size>>)
    /\ UNCHANGED <<iwhat, ilen, iout, iback, ipc>>

\* UnknownRegions of the identified regions, then of its result
InvertOnce ==
    /\ ipc = "start"
    /\ iout' = UnknownRegions(iwhat, ilen)
    /\ ipc' = "inverted"
    /\ UNCHANGED <<regions, rcalls, iwhat, ilen, iback>>

InvertTwice ==
    /\ ipc = "inverted"
    /\ iback' = Invert(iout, ilen)
    /\ ipc' = "back"
    /\ UNCHANGED <<regions, rcalls, iwhat, ilen, iout>>

\* region maps in which no region starts before the end of the one before
\* it nor ends after length (sizes may be zero)
InOrderWithin(w, l) ==
    /\ \A j \in DOMAIN w, k \in DOMAIN w : j < k => j + w[j] <= k
    /\ \A k \in DOMAIN w : k + w[k] <= l

RegionPool ==
    UNION {[S -> 0 .. MaxLength] : S \in SUBSET (0 .. MaxLength)}

RIdle ==
    /\ regions = <<>>
    /\ rcalls = <<>>
    /\ iwhat = <<>>
    /\ ilen = 0
    /\ iout = <<>>
    /\ iback = <<>>
    /\ ipc = "idle"

IStart ==
    /\ regions = <<>>
    /\ rcalls = <<>>
    /\ ilen \in 0 .. MaxLength
    /\ iwhat \in {w \in RegionPool : InOrderWithin(w, ilen)}
    /\ iout = <<>>
    /\ iback = <<>>
    /\ ipc = "start"

\* ---------------------------------------------------------------------
\* The e-graph as a state machine
\* ---------------------------------------------------------------------
vars == <<egvars, dvars, mvars, xvars, cvars, rvars>>

EGStart ==
    /\ nodes = <<>>
    /\ uparent = <<>>
    /\ urank = <<>>
    /\ classes = <<>>
    /\ ids = <<>>
    /\ pending = <<>>
    /\ failed = FALSE
    /\ last = [op |-> "init", ret |-> 0]

AllIds == DOMAIN uparent

ChildLists ==
    UNION {[1 .. k -> AllIds] : k \in 0 .. MaxArity}

AddStep ==
    /\ Len(nodes) < MaxNodes
    /\ \E name \in Names, ch \in ChildLists : Add(name, ch)
    /\ UNCHANGED <<dvars, mvars, xvars, cvars, rvars>>
MergeStep ==
    /\ \E a \in AllIds, b \in AllIds : Merge(a, b)
    /\ UNCHANGED <<dvars, mvars, xvars, cvars, rvars>>
Roots == {i \in AllIds : uparent[i] = i}
RebuildStep ==
    /\ Rebuild
    /\ UNCHANGED <<dvars, mvars, xvars, cvars, rvars>>

EGInit == EGStart /\ DecIdle /\ MIdle /\ XIdle /\ CIdle /\ RIdle
EGNext == AddStep \/ MergeStep \/ RebuildStep

Spec == EGInit /\ [][EGNext]_vars

\* the e-graph grown to ManyNodes e-nodes of one name, so that two classes
\* that each survived a merge can be merged in turn
ManyNodes == 4
AddManyStep ==
    /\ Len(nodes) < ManyNodes
    /\ \E ch \in ChildLists : Add("f", ch)
    /\ UNCHANGED <<dvars, mvars, xvars, cvars, rvars>>
EGManyNext == AddManyStep \/ MergeStep \/ RebuildStep

EGManySpec == EGInit /\ [][EGManyNext]_vars

DecInit == EGStart /\ DecInitWith(CtxPool, MaxCtxs) /\ MIdle /\ XIdle /\ CIdle /\ RIdle
PrintFileStep ==
    /\ \E crash \in BOOLEAN : PrintFile(crash)
    /\ UNCHANGED <<egvars, mvars, xvars, cvars, rvars>>
DecodeStep ==
    /\ \E bytes \in Buffers, oob \in OobValues, ub \in UbOutcomes :
          Decode(bytes, oob, ub)
    /\ UNCHANGED <<egvars, mvars, xvars, cvars, rvars>>
DecNext == PrintFileStep \/ DecodeStep

DecSpec == DecInit /\ [][DecNext]_vars

\* a second family of inputs: up to WideCtxs contexts, each constraining
\* bits 0 and 1 of the encoding
WideCtxs == 4
WidePool ==
    {[len |-> 1,
      conds |-> <<[low |-> 0, high_exc |-> 2, bits |-> b], Delimiter(8)>>] :
        b \in [1 .. 2 -> {"0", "1"}]}

DecWideInit == EGStart /\ DecInitWith(WidePool, WideCtxs) /\ MIdle /\ XIdle /\ CIdle /\ RIdle
DecWideSpec == DecWideInit /\ [][DecNext]_vars

\* a third family of inputs: contexts of 14 bytes whose conditions lie at
\* the top of the encoding: a constant for bit 118, and a delimiter
\* Extract(112, 120) whose constant ends in either character
TailLow == InstrBits - ByteBits
TailBit == DelimHighInc - 1
TailDelimiter(c) ==
    [low |-> TailLow, high_exc |-> InstrBits,
     bits |-> [k \in 1 .. InstrBits - TailLow |->
                  IF k = InstrBits - TailLow THEN c ELSE "0"]]
TailPool ==
    {[len |-> TailLow \div ByteBits, conds |-> cs \o <<TailDelimiter(c)>>] :
        c \in {"0", "1"},
        cs \in {<<>>} \cup {<<[low |-> TailBit, high_exc |-> TailBit + 1,
                               bits |-> <<b>>]>> : b \in {"0", "1"}}}

DecTailInit == EGStart /\ DecInitWith(TailPool, MaxCtxs) /\ MIdle /\ XIdle /\ CIdle /\ RIdle
DecTailSpec == DecTailInit /\ [][DecNext]_vars

\* the matcher as a state machine: one e-graph, one rule matched on it
MatchInit == EGStart /\ DecIdle /\ MStart /\ XIdle /\ CIdle /\ RIdle
MatchCallStep ==
    /\ mpc = "idle"
    /\ \E e \in MPatPool : MatchCall([lhs |-> [action |-> e]])
    /\ UNCHANGED <<egvars, dvars, xvars, cvars, rvars>>
MatchResumeStep ==
    /\ MatchResume
    /\ UNCHANGED <<egvars, dvars, xvars, cvars, rvars>>
RelabelStep ==
    /\ mrelabels < MaxRelabels
    /\ \E n \in DOMAIN mgraph.nodes, l \in Labels : Relabel(n, l)
    /\ UNCHANGED <<egvars, dvars, xvars, cvars, rvars>>
MatchNext == MatchCallStep \/ MatchResumeStep \/ RelabelStep

MatchSpec == MatchInit /\ [][MatchNext]_vars

\* context extraction followed by the emission of the decoder
ExtractInit == EGStart /\ MIdle /\ XStart /\ CIdle /\ RIdle
ExtractStep ==
    /\ ExtractCtx
    /\ UNCHANGED <<egvars, mvars, cvars, rvars>>
ExtractNext == ExtractStep \/ PrintFileStep

ExtractSpec == ExtractInit /\ [][ExtractNext]_vars

\* the command-line driver: one run from any command line
MainInit == EGStart /\ DecIdle /\ MIdle /\ XIdle /\ CStart /\ RIdle
MainStep ==
    /\ Main
    /\ UNCHANGED <<egvars, dvars, mvars, xvars, rvars>>
MainNext == MainStep

MainSpec == MainInit /\ [][MainNext]_vars

\* has_regions: up to MaxAdds calls of add on an empty map
RegionInit == EGStart /\ DecIdle /\ MIdle /\ XIdle /\ CIdle /\ RIdle
AddRegionStep ==
    /\ Len(rcalls) < MaxAdds
    /\ \E from \in 0 .. MaxFrom, size \in 1 .. MaxSize : AddRegion(from, size)
    /\ UNCHANGED <<egvars, dvars, mvars, xvars, cvars>>
RegionNext == AddRegionStep

RegionSpec == RegionInit /\ [][RegionNext]_vars

\* Invert applied twice to a map of regions
InvertInit == EGStart /\ DecIdle /\ MIdle /\ XIdle /\ CIdle /\ IStart
InvertOnceStep ==
    /\ InvertOnce
    /\ UNCHANGED <<egvars, dvars, mvars, xvars, cvars>>
InvertTwiceStep ==
    /\ InvertTwice
    /\ UNCHANGED <<egvars, dvars, mvars, xvars, cvars>>
InvertNext == InvertOnceStep \/ InvertTwiceStep

InvertSpec == InvertInit /\ [][InvertNext]_vars

\* =====================================================================
\* Properties of the e-graph
\* =====================================================================
NodePtrs == DOMAIN nodes

\* the canonical key the properties speak of: the name of an e-node and its
\* children mapped through find (no function of the e-graph computes it)
CanonicalKey(par, n) ==
    <<n.name, [i \in DOMAIN n.children |-> UFFind(par, n.children[i])]>>

\* C1: after rebuild completes, any two e-nodes with the same canonical key
\* (same name, same children after find) are in the same e-class.
C1_CongruenceAfterRebuild ==
    last.op = "rebuild" =>
        \A n1 \in NodePtrs, n2 \in NodePtrs :
            CanonicalKey(uparent, nodes[n1]) = CanonicalKey(uparent, nodes[n2])
                => Find(ids[n1]) = Find(ids[n2])

\* C2: add is hash-consing: when the canonical key of the added node equals
\* that of an e-node already in the e-graph, add returns the class of that
\* e-node and the class map gets no new entry.
C2_AddHashConses ==
    [][(last'.op = "add" /\ Len(nodes') = Len(nodes) + 1) =>
         LET n == nodes'[Len(nodes')]
             same == {p \in NodePtrs :
                        CanonicalKey(uparent, nodes[p]) = CanonicalKey(uparent, n)}
         IN same # {} =>
               /\ last'.ret \in {UFFind(uparent, ids[p]) : p \in same}
               /\ DOMAIN classes' = DOMAIN classes]_vars

\* C9: in every state of a running e-graph, every e-node listed in the class
\* stored under id c has find(_ids[n]) = c.
C9_NodesFindTheirClass ==
    ~failed =>
        \A c \in DOMAIN classes :
            \A i \in DOMAIN classes[c].nodes :
                Find(ids[classes[c].nodes[i]]) = c

\* C9 witness: after a merge, a class holds a node whose stored id is not
\* the class's own id, yet find leads to it.
C9_Witness ==
    /\ ~failed
    /\ \E c \in DOMAIN classes :
          \E i \in DOMAIN classes[c].nodes :
              /\ ids[classes[c].nodes[i]] # c
              /\ Find(ids[classes[c].nodes[i]]) = c

\* C11: e-classes are never split: every step (add, merge, rebuild) keeps
\* every id valid for find and keeps find(x) = find(y) for all ids x, y that
\* had equal roots before the step; the id returned by add or merge is an id
\* of the union-find.
C11_ClassesNeverSplit ==
    [][/\ AllIds \subseteq DOMAIN uparent'
       /\ \A x \in AllIds : UFFind(uparent', x) \in DOMAIN uparent'
       /\ \A x \in AllIds, y \in AllIds :
             UFFind(uparent, x) = UFFind(uparent, y)
                 => UFFind(uparent', x) = UFFind(uparent', y)
       /\ last'.op \in {"add", "merge"} => last'.ret \in DOMAIN uparent']_vars

\* C11 witness: two distinct ids share a root (they were merged) and a later
\* add or rebuild has run on that e-graph.
C11_Witness ==
    /\ ~failed
    /\ last.op \in {"add", "rebuild"}
    /\ \E x \in AllIds, y \in AllIds : x # y /\ Find(x) = Find(y)

\* C12: the parents list of the class find(c) holds every e-node that has c
\* as a child.
C12_ParentsListComplete ==
    ~failed =>
        \A n \in NodePtrs :
            \A i \in DOMAIN nodes[n].children :
                LET c == Find(nodes[n].children[i])
                IN /\ c \in DOMAIN classes
                   /\ \E k \in DOMAIN classes[c].parents :
                         classes[c].parents[k] = n

\* C10: merge never fails: the root returned by the union-find is the class
\* chosen as survivor by parents-list size (CHECK_EQ(new_id, a) holds).
C10_MergeNeverFails == ~failed

\* =====================================================================
\* Properties of the decoder synthesizer
\* =====================================================================
\* bit i of the 15-byte buffer
BufBit(bytes, i) == ByteBit(bytes[i \div ByteBits], i % ByteBits)

IsDelimiter(cond) == cond.high_exc = InstrBits

\* the buffer satisfies the bit constraints of a context: every constant bit
\* of every condition other than the length delimiter equals the buffer's bit
CtxMatches(ctx, bytes) ==
    \A n \in DOMAIN ctx.conds :
        ~IsDelimiter(ctx.conds[n]) =>
            \A k \in 1 .. ctx.conds[n].high_exc - ctx.conds[n].low :
                LET c == ctx.conds[n].bits[k]
                    b == BufBit(bytes, ctx.conds[n].low + k - 1)
                IN (c = "0" => b = 0) /\ (c = "1" => b = 1)

\* the tri-state of bit i of the encoding in the two emitted words
TriAt(args, i) ==
    IF i < HalfBits THEN args.first[i] ELSE args.second[i - HalfBits]

\* every cared bit of the input equals its expected value
CaredBitsEqual(args, bytes) ==
    \A i \in 0 .. InstrBits - 1 :
        /\ TriAt(args, i) = "zero" => BufBit(bytes, i) = 0
        /\ TriAt(args, i) = "one" => BufBit(bytes, i) = 1

NoCaredBits(args) == NumCompareExprs(args) = 0

RECURSIVE InternalNodes(_)
InternalNodes(t) ==
    IF t.kind = "if"
    THEN {t} \cup InternalNodes(t.ones) \cup InternalNodes(t.zeros)
    ELSE {}

RECURSIVE CalledCtxs(_)
CalledCtxs(t) ==
    IF t.kind = "if" THEN CalledCtxs(t.ones) \cup CalledCtxs(t.zeros)
    ELSE IF t.kind = "call" THEN {t.ctx}
    ELSE {}

Matching == {k \in DOMAIN dctx : CtxMatches(dctx[k], dbuf)}

\* C3: for every buffer that satisfies the constraints of some context,
\* circuit_decode returns the encoding length of a context the buffer
\* matches (and so not -1).
C3_MatchingBufferIsDecoded ==
    (dpc = "decoded" /\ Matching # {}) =>
        dres \in {dctx[k].len : k \in Matching}

\* C4: for every buffer that matches no context, circuit_decode returns -1.
C4_MissReturnsMinusOne ==
    (dpc = "decoded" /\ Matching = {}) => dres = -1

\* C5: for every context and every input, the emitted per-context function
\* returns the encoding length exactly when every cared bit of the input
\* equals its expected value, and 0 otherwise.
C5_MatchFunctionExact ==
    dpc = "decoded" =>
        \A k \in DOMAIN dfuncs :
            dfn[k] = IF CaredBitsEqual(dfuncs[k].args, dbuf)
                     THEN dfuncs[k].encoding_size ELSE 0

\* the score the selection is meant to maximize: min(|zeros(i)|, |ones(i)|)
SplitScore(g) ==
    IF Len(g.zeros) < Len(g.ones) THEN Len(g.zeros) ELSE Len(g.ones)

\* C6: at every internal node of the selection tree the tested bit is a
\* not-yet-tested position whose score min(|zeros|, |ones|) is maximal among
\* the not-yet-tested positions.
C6_TestedBitMaximizesScore ==
    dpc # "init" =>
        \A n \in InternalNodes(dtree) :
            LET iv == get_decode_requirements_per_index(dctx, n.to_split,
                                                        n.already)
            IN /\ n.bit \notin n.already
               /\ \A i \in (0 .. InstrBits - 1) \ n.already :
                      SplitScore(iv[i]) <= SplitScore(iv[n.bit])

\* C7: when two contexts have identical bit patterns, the selection tree
\* has a leaf calling the match function of each of them.
C7_IdenticalContextsBothCalled ==
    dpc \in {"emitted", "decoded"} =>
        \A j \in DOMAIN dfuncs, k \in DOMAIN dfuncs :
            (j # k /\ dfuncs[j].args = dfuncs[k].args) =>
                (j \in CalledCtxs(dtree) /\ k \in CalledCtxs(dtree))

\* C8: for a context whose constraints cover 0 bits, the per-context function
\* is emitted and returns the encoding length for every input.
C8_UnconstrainedContextMatches ==
    \A k \in DOMAIN dctx :
        NoCaredBits(get_decode_context_function_args(dctx[k])) =>
            /\ dpc # "crashed"
            /\ dpc = "decoded" => dfn[k] = dctx[k].len

\* =====================================================================
\* Properties of the matcher
\* =====================================================================
\* expr matches at node n under the total binding b (place name -> handle)
RECURSIVE Satisfies(_, _, _, _)
Satisfies(e, n, g, b) ==
    CASE e.k = "constant" -> g.nodes[n].const = e.v
      [] e.k = "operation" -> g.nodes[n].name = e.v
      [] e.k = "place" -> b[e.v] = g.find[n]
      [] e.k = "list" ->
           /\ Satisfies(Head(e.elems), n, g, b)
           /\ \/ Len(e.elems) = 1
              \/ /\ Len(e.elems) - 1 = Len(g.nodes[n].children)
                 /\ \A i \in 1 .. Len(e.elems) - 1 :
                       \E c \in 1 .. Len(g.nodes) :
                          /\ g.find[c] = g.find[g.nodes[n].children[i]]
                          /\ Satisfies(e.elems[i + 1], c, g, b)

MPlaces == gather_places(mpat)

\* the generator has run to its end on a graph the consumer left alone
Drained == mpc = "done" /\ mrelabels = 0
BindingOf(m) ==
    [p \in {MPlaces[i] : i \in DOMAIN MPlaces} |->
        m.matched_places[place_index(p, MPlaces)]]

\* the places of expr stand for their classes of b at node n, whatever the
\* names and constants of the nodes
RECURSIVE OccurrencesAgree(_, _, _, _)
OccurrencesAgree(e, n, g, b) ==
    CASE e.k = "constant" -> TRUE
      [] e.k = "operation" -> TRUE
      [] e.k = "place" -> b[e.v] = g.find[n]
      [] e.k = "list" ->
           /\ OccurrencesAgree(Head(e.elems), n, g, b)
           /\ \/ Len(e.elems) = 1
              \/ /\ Len(e.elems) - 1 = Len(g.nodes[n].children)
                 /\ \A i \in 1 .. Len(e.elems) - 1 :
                       \E c \in 1 .. Len(g.nodes) :
                          /\ g.find[c] = g.find[g.nodes[n].children[i]]
                          /\ OccurrencesAgree(e.elems[i + 1], c, g, b)

\* C13: place linearity: every yielded result binds each place of the
\* pattern to one canonical class and every occurrence of a place stands
\* for that class, also when the consumer renamed nodes between results;
\* on a graph left alone the pattern matches at the result's node under
\* that binding.
C13_PlaceLinearity ==
    \A r \in DOMAIN mres :
        /\ DOMAIN mres[r].matched_places = 0 .. Len(MPlaces) - 1
        /\ \A i \in DOMAIN mres[r].matched_places :
              mgraph.find[mres[r].matched_places[i]] = mres[r].matched_places[i]
        /\ OccurrencesAgree(mpat.action, mres[r].node, mgraph, BindingOf(mres[r]))
        /\ mrelabels = 0 =>
              Satisfies(mpat.action, mres[r].node, mgraph, BindingOf(mres[r]))

TwoOccurrences == ExprList(<<Operation("f"), Place("x"), Place("x")>>)

\* C13 witness: the pattern (f ?x ?x) was matched on a graph holding an f
\* node with two children of one class (a result is yielded) and an f node
\* with two children of different classes (no result for that node).
C13_Witness ==
    /\ Drained
    /\ mpat.action = TwoOccurrences
    /\ mres # <<>>
    /\ \E n \in DOMAIN mgraph.nodes :
          /\ mgraph.nodes[n].name = "f"
          /\ Len(mgraph.nodes[n].children) = 2
          /\ mgraph.find[mgraph.nodes[n].children[1]]
                # mgraph.find[mgraph.nodes[n].children[2]]
          /\ \A r \in DOMAIN mres : mres[r].node # n

\* C14: a list pattern with k children matches only nodes with exactly k
\* children, for every k >= 0.
C14_ListArityExact ==
    (Drained /\ mpat.action.k = "list") =>
        \A r \in DOMAIN mres :
            Len(mgraph.nodes[mres[r].node].children) = Len(mpat.action.elems) - 1

\* C14 as the code has it: a list pattern with k >= 1 children matches only
\* nodes with exactly k children, also when the consumer renamed nodes
\* between results; a list of the head alone matches whatever its head
\* matches, whatever the number of children of the node.
C14_ListArityExactWithChildren ==
    mpat.action.k = "list" =>
        /\ Len(mpat.action.elems) >= 2 =>
              \A r \in DOMAIN mres :
                 Len(mgraph.nodes[mres[r].node].children)
                     = Len(mpat.action.elems) - 1
        /\ (Drained /\ Len(mpat.action.elems) = 1) =>
              \A n \in DOMAIN mgraph.nodes :
                 Satisfies(Head(mpat.action.elems), n, mgraph,
                           [p \in {"x", "y"} |-> mgraph.find[n]])
                    => \E r \in DOMAIN mres : mres[r].node = n

\* C14 witness: a list pattern with two children has matched a node, and the
\* graph also holds a node of the same name with one child.
C14_Witness ==
    /\ Drained
    /\ mpat.action.k = "list"
    /\ Len(mpat.action.elems) = 3
    /\ mres # <<>>
    /\ \E n \in DOMAIN mgraph.nodes :
          /\ mgraph.nodes[n].name = "f"
          /\ Len(mgraph.nodes[n].children) = 1

\* the results of matching the pattern at node n, from the empty binding
NodeResults(n) ==
    match_by_action(mpat, n, AtNode(View(mgraph, <<>>), n), MPlaces)
Covers(m) == DOMAIN m.matched_places = 0 .. Len(MPlaces) - 1
ResultSet(ms) == {ms[i] : i \in DOMAIN ms}

\* C15: every result of the top-level match covers every place of the
\* pattern, and drained on a graph left alone it yields exactly the
\* results of that kind over every e-node of every e-class.
C15_TopLevelCoversPlaces ==
    /\ \A r \in DOMAIN mres : Covers(mres[r])
    /\ Drained =>
          ResultSet(mres) =
              UNION {{m \in ResultSet(NodeResults(n)) : Covers(m)} :
                       n \in DOMAIN mgraph.nodes}

\* C15 witness: a pattern with a place has matched at the second node of a
\* class whose first node it does not match.
C15_Witness ==
    /\ Drained
    /\ MPlaces # <<>>
    /\ \E r \in DOMAIN mres :
          \E n \in DOMAIN mgraph.nodes :
             /\ n < mres[r].node
             /\ mgraph.find[n] = mgraph.find[mres[r].node]
             /\ NodeResults(n) = <<>>

\* =====================================================================
\* Properties of context extraction
\* =====================================================================
AllVIs(ir) == {o \in DOMAIN ir.ops : ir.ops[o].kind = "VerifyInstruction"}
DecodeConditionsOf(ir, vi) ==
    Elements(SubtreeCollectorRunAll(ir, "DecodeCondition", ir.ops[vi].operands))
DelimitersOf(ir, vi) ==
    {c \in DecodeConditionsOf(ir, vi) : ir.ops[c].high_exc = InstrBits}
Extracted == dpc \in {"init", "emitted", "crashed"}

\* C16: extraction throws whenever some VerifyInstruction of the circuit
\* has no delimiter (a DecodeCondition with high_bit_exc = 120) or a length
\* above 15 bytes; otherwise every context has the length low / 8 of its
\* delimiter.
C16_ExtractionThrowsOrSetsLength ==
    dpc # "new" =>
        /\ (\E vi \in AllVIs(xir) :
               \/ DelimitersOf(xir, vi) = {}
               \/ \E c \in DelimitersOf(xir, vi) : xir.ops[c].low \div 8 > 15)
              => dpc = "thrown"
        /\ Extracted =>
              \A k \in DOMAIN dctx :
                 \E c \in DelimitersOf(xir, dctx[k].vi) :
                    dctx[k].len = xir.ops[c].low \div 8

\* two conditions of the context require different values of one bit
Conflicting(ctx) ==
    \E i \in DOMAIN ctx.conds, j \in DOMAIN ctx.conds :
        /\ ~IsDelimiter(ctx.conds[i])
        /\ ~IsDelimiter(ctx.conds[j])
        /\ \E b \in 0 .. InstrBits - 1 :
              /\ ctx.conds[i].low <= b /\ b < ctx.conds[i].high_exc
              /\ ctx.conds[j].low <= b /\ b < ctx.conds[j].high_exc
              /\ ctx.conds[i].bits[b - ctx.conds[i].low + 1]
                    # ctx.conds[j].bits[b - ctx.conds[j].low + 1]

\* C17: a context whose conditions disagree on a bit is reported: no match
\* function is emitted for it.
C17_ConflictIsReported ==
    dpc = "emitted" => \A k \in DOMAIN dfuncs : ~Conflicting(dctx[k])

RootVIs(ir) ==
    {o \in AllVIs(ir) :
        \E i \in DOMAIN ir.ops[ir.circuit].operands :
            ir.ops[ir.circuit].operands[i] = o}

\* C18: after a successful extraction every VerifyInstruction operand of
\* the Circuit root has exactly one decode context.
C18_OneContextPerVerifyInstruction ==
    Extracted =>
        \A vi \in RootVIs(xir) :
            Cardinality({k \in DOMAIN dctx : dctx[k].vi = vi}) = 1

\* C19: the conditions of a context are the DecodeConditions reachable from
\* its VerifyInstruction, each exactly once.
C19_ConditionsFormASet ==
    Extracted =>
        \A k \in DOMAIN dctx :
            LET cids == [i \in DOMAIN dctx[k].conds |-> dctx[k].conds[i].id]
            IN /\ Elements(cids) = DecodeConditionsOf(xir, dctx[k].vi)
               /\ \A c \in Elements(cids) : CountIn(cids, c) = 1

\* =====================================================================
\* Properties of the command-line driver
\* =====================================================================
NoInputFlag == cflags["binary_in"] = "" /\ cflags["ir_in"] = ""

\* C20: the driver exits with 0 on success, with 1 when neither input flag
\* is given, and with 2 when lifting or deserialization yields no circuit.
C20_ExitCodes ==
    cpc = "exited" =>
        /\ csrc = "none" => cexit = 1
        /\ (csrc # "none" /\ cerr = "Failed to get circuit IR") => cexit = 2
        /\ (csrc # "none" /\ cerr = "") => cexit = 0

\* C20 as the code has it: the driver exits with 0 exactly when a circuit
\* was obtained, and with 1 both when neither input flag is given and when
\* lifting or deserialization yields no circuit; the two failures differ in
\* the diagnostic only.
C20_ExitCodesFailureIsOne ==
    cpc = "exited" =>
        /\ cexit \in {EXIT_SUCCESS, EXIT_FAILURE}
        /\ csrc = "none" <=> NoInputFlag
        /\ csrc = "none" =>
              cexit = 1 /\ cerr = "Expected one of --binary_in or --ir_in"
        /\ (csrc = "binary_in" /\ ~cenv.lift) =>
              cexit = 1 /\ cerr = "Failed to get circuit IR"
        /\ (csrc = "ir_in" /\ ~cenv.deserialize) =>
              cexit = 1 /\ cerr = "Failed to get circuit IR"
        /\ cexit = 0 <=> \/ csrc = "binary_in" /\ cenv.lift
                         \/ csrc = "ir_in" /\ cenv.deserialize

\* C20 witness: a run that was given an input and got no circuit from it.
C20_Witness ==
    /\ cpc = "exited"
    /\ csrc = "ir_in"
    /\ ~cenv.deserialize
    /\ cexit = 1

\* C21: the input flags are mutually exclusive: a run given both the
\* binary-in path and the IR-in path reads neither input and does not
\* succeed.
C21_BothInputsRejected ==
    (cpc = "exited" /\ cflags["binary_in"] # "" /\ cflags["ir_in"] # "") =>
        /\ csrc = "none"
        /\ cexit # EXIT_SUCCESS

\* =====================================================================
\* Further properties of the e-graph
\* =====================================================================
\* the roots that a step puts under another root
Absorbed == {x \in AllIds : Find(x) = x /\ UFFind(uparent', x) # x}

\* C22: a completed merge of two different classes leaves the survivor with
\* the nodes and the parents of both, removes the absorbed id from the class
\* map, appends the survivor to pending and changes no other class; a merge
\* within one class changes neither the class map nor pending.
C22_MergeFrame ==
    [][last'.op = "merge" =>
         IF Absorbed = {}
         THEN UNCHANGED <<classes, pending, nodes, ids>>
         ELSE \E b \in Absorbed :
                 LET a == UFFind(uparent', b)
                 IN /\ Absorbed = {b}
                    /\ last'.ret = a
                    /\ classes'[a].nodes = classes[a].nodes \o classes[b].nodes
                    /\ classes'[a].parents
                          = classes[a].parents \o classes[b].parents
                    /\ DOMAIN classes' = DOMAIN classes \ {b}
                    /\ \A c \in DOMAIN classes' \ {a} : classes'[c] = classes[c]
                    /\ pending' = Append(pending, a)
                    /\ UNCHANGED <<nodes, ids>>]_vars

\* C22 witness: a merge has just joined two classes that both had parents.
C22_Witness ==
    /\ last.op = "merge"
    /\ pending # <<>>
    /\ pending[Len(pending)] = last.ret
    /\ last.ret \in DOMAIN classes
    /\ Len(classes[last.ret].nodes) >= 2
    /\ Len(classes[last.ret].parents) >= 2

\* C23: in every state the stored id of every e-node is a key of the class
\* map, and the class stored under it lists the node.
C23_StoredIdIsCanonical ==
    \A n \in NodePtrs :
        /\ ids[n] \in DOMAIN classes
        /\ \E i \in DOMAIN classes[ids[n]].nodes : classes[ids[n]].nodes[i] = n

\* C23 as the code has it: the stored id of every e-node is such a key
\* whenever no merge is pending (after add on a rebuilt e-graph and after
\* rebuild); between a merge and the next rebuild the stored id of a node of
\* the absorbed class is the erased id, and only find leads to the class.
C23_StoredIdIsCanonicalWhenRebuilt ==
    /\ pending = <<>> => C23_StoredIdIsCanonical
    /\ (~failed /\ pending # <<>>) =>
          \A n \in NodePtrs :
              /\ Find(ids[n]) \in DOMAIN classes
              /\ \E i \in DOMAIN classes[Find(ids[n])].nodes :
                    classes[Find(ids[n])].nodes[i] = n

\* C23 witness: a rebuild has refreshed the stored id of a node whose class
\* was absorbed.
C23_Witness ==
    /\ last.op = "rebuild"
    /\ \E n \in NodePtrs : ids[n] # n - 1


\* =====================================================================
\* Further properties of the decoder synthesizer
\* =====================================================================
\* condition n of the context covers bit b of the encoding
Covering(ctx, b) ==
    {n \in DOMAIN ctx.conds :
        ctx.conds[n].low <= b /\ b < ctx.conds[n].high_exc}

\* bit b is covered by the length delimiter and by no other condition
DelimiterOnly(ctx, b) ==
    /\ Covering(ctx, b) # {}
    /\ \A n \in Covering(ctx, b) : IsDelimiter(ctx.conds[n])

\* the tri-state of context k at bit b in the per-index scoring of all
\* the contexts, none of the bits chosen yet
ScoredAt(iv, k, b) ==
    IF \E j \in DOMAIN iv[b].zeros : iv[b].zeros[j] = k THEN "zero"
    ELSE IF \E j \in DOMAIN iv[b].ones : iv[b].ones[j] = k THEN "one"
    ELSE IF \E j \in DOMAIN iv[b].ignores : iv[b].ignores[j] = k THEN "ignore"
    ELSE "absent"

RootScoring ==
    get_decode_requirements_per_index(dctx, [k \in DOMAIN dctx |-> k], {})

\* C24: the length delimiter contributes no bit constraint in either
\* reader: every bit covered only by the delimiter is ignore in the emitted
\* per-byte projection and in the per-index scoring.
C24_DelimiterConstrainsNothing ==
    dpc \in {"emitted", "decoded"} =>
        LET iv == RootScoring
        IN \A k \in DOMAIN dctx : \A b \in 0 .. InstrBits - 1 :
              DelimiterOnly(dctx[k], b) =>
                  /\ TriAt(dfuncs[k].args, b) = "ignore"
                  /\ ScoredAt(iv, k, b) = "ignore"

\* emitted for a context with a delimiter and a constant bit next to it
C24_Witness ==
    /\ dpc = "emitted"
    /\ \E k \in DOMAIN dctx :
          /\ \E b \in 0 .. InstrBits - 1 : DelimiterOnly(dctx[k], b)
          /\ \E b \in 0 .. InstrBits - 1 : TriAt(dfuncs[k].args, b) = "zero"

\* C25: no internal node of the selection tree tests bit 119.
C25_LastBitNeverTested ==
    dpc \in {"emitted", "decoded"} =>
        \A n \in InternalNodes(dtree) : n.bit # DelimHighInc

\* a tree with an internal node, built for contexts whose delimiters
\* differ at bit 119
C25_Witness ==
    /\ dpc = "emitted"
    /\ InternalNodes(dtree) # {}
    /\ \E j \in DOMAIN dctx, k \in DOMAIN dctx :
          \E m \in Covering(dctx[j], DelimHighInc) :
          \E n \in Covering(dctx[k], DelimHighInc) :
              dctx[j].conds[m].bits[DelimHighInc - dctx[j].conds[m].low + 1]
                 # dctx[k].conds[n].bits[DelimHighInc - dctx[k].conds[n].low + 1]

\* no internal node of t tests a bit that is in tested or that one of its
\* ancestors in t tests
RECURSIVE TestedOncePerPath(_, _)
TestedOncePerPath(t, tested) ==
    t.kind = "if" =>
        /\ t.bit \notin tested
        /\ TestedOncePerPath(t.ones, tested \cup {t.bit})
        /\ TestedOncePerPath(t.zeros, tested \cup {t.bit})

\* C26: the construction of the selection tree terminates, along every
\* root-to-leaf path each bit position is tested at most once, and the
\* depth of the tree, which is the reported max_depth, is at most 120.
C26_TreeIsFiniteAndTestsOnce ==
    dpc \in {"emitted", "decoded"} =>
        /\ TestedOncePerPath(dtree, {})
        /\ max_depth(dtree) <= InstrBits

\* a tree with two tests in a row, and one built for contexts that no bit
\* tells apart
C26_Witness ==
    /\ dpc = "emitted"
    /\ max_depth(dtree) >= 2
    /\ \E j \in DOMAIN dctx, k \in DOMAIN dctx : j # k /\ dctx[j] = dctx[k]

\* C27: the two readers of the decode conditions agree: for every context
\* and every bit position not yet tested, the tri-state by which
\* get_decode_requirements_per_index partitions the contexts equals the
\* tri-state convert_circIR_to_input_type_array puts at that bit of the
\* context's match pattern, whatever the constant's characters.
C27_ReadersAgree ==
    dpc \in {"emitted", "decoded"} =>
        LET iv == RootScoring
        IN \A k \in DOMAIN dctx : \A b \in 0 .. InstrBits - 1 :
              ScoredAt(iv, k, b) = TriAt(dfuncs[k].args, b)

\* =====================================================================
\* The class map after rebuild
\* =====================================================================
\* the places of the class map where node pointer n is listed
Listings(n) ==
    {<<c, i>> \in AllIds \X (1 .. Len(nodes)) :
        /\ c \in DOMAIN classes
        /\ i \in DOMAIN classes[c].nodes
        /\ classes[c].nodes[i] = n}

\* C28: after any calls of add and merge followed by rebuild, the pending
\* list is empty, the class map has exactly one entry per union-find root,
\* no entry has an empty node list, and every e-node is listed in the node
\* list of exactly one entry.
C28_ClassMapAfterRebuild ==
    last.op = "rebuild" =>
        /\ pending = <<>>
        /\ DOMAIN classes = Roots
        /\ \A c \in DOMAIN classes : classes[c].nodes # <<>>
        /\ \A n \in NodePtrs : Cardinality(Listings(n)) = 1

\* a rebuild of an e-graph in which two classes that each absorbed another
\* have been merged, so that a pending id was no root any more
C28_Witness ==
    /\ last.op = "rebuild"
    /\ Cardinality(AllIds) = ManyNodes
    /\ Cardinality(Roots) = 1
    /\ \E r \in Roots : urank[r] = 2

\* =====================================================================
\* Properties of the regions
\* =====================================================================
\* the indices a region map can reach in the runs checked
Indices == 0 .. (MaxFrom + MaxSize + MaxLength)

\* the indices for which present() is true
Covered(r) == {i \in Indices : present(r, i)}

\* no index lies in two regions
PairwiseDisjoint(r) ==
    \A j \in DOMAIN r, k \in DOMAIN r :
        j # k => \A i \in Indices :
                    ~(/\ i >= j /\ i < j + r[j]
                      /\ i >= k /\ i < k + r[k])

\* C29: after any calls of has_regions::add(from, size) on an empty region
\* map the stored regions are pairwise disjoint, so region_bitsize() equals
\* the number of distinct indices for which present() is true.
C29_RegionsStayDisjoint ==
    /\ PairwiseDisjoint(regions)
    /\ region_bitsize(regions) = Cardinality(Covered(regions))

\* the input of Invert the claim is about
DisjointWithin(w, l) ==
    /\ PairwiseDisjoint(w)
    /\ \A k \in DOMAIN w : w[k] >= 1 /\ k + w[k] <= l

\* C30: for a map of pairwise disjoint non-empty regions within
\* [0, length), Invert(what, length) covers exactly the indices of
\* [0, length) that what does not cover, and Invert applied to that result
\* covers exactly the indices what covers.
C30_InvertIsComplement ==
    DisjointWithin(iwhat, ilen) =>
        /\ ipc \in {"inverted", "back"} =>
              Covered(iout) = (0 .. ilen - 1) \ Covered(iwhat)
        /\ ipc = "back" => Covered(iback) = Covered(iwhat)

\* inverted twice: a map of two regions with a gap between them and a
\* gap after them
C30_Witness ==
    /\ ipc = "back"
    /\ DisjointWithin(iwhat, ilen)
    /\ Cardinality(DOMAIN iwhat) = 2
    /\ Cardinality(DOMAIN iout) = 2
    /\ ~present(iwhat, ilen - 1)
====
